---- MODULE Spec2Model ----
(***************************************************************************)
(* Model of the authentication / password-recovery / document-library core *)
(* of Milestone1.py (a Streamlit application backed by SQLite).            *)
(*                                                                         *)
(* Three specifications share the same state:                              *)
(*   Spec     - the core functions called one after another;               *)
(*   SpecUI   - the Streamlit page driven by several browser sessions;     *)
(*   SpecConc - callers whose reset_password runs as its two SQL           *)
(*              statements (SELECT, then UPDATE), interleaved.             *)
(*                                                                         *)
(* Python values: None is the empty set and a present value v is {v}, so   *)
(* every Optional is a set with at most one element.  Emails and document  *)
(* texts are sequences of one-character strings so that strip() and        *)
(* lower() are computed; passwords are strings.  secrets.token_hex(16) is  *)
(* modelled as a source of fresh values: its n-th result is TokenHex(n).   *)
(* bcrypt is modelled by its contract: checkpw(p, h) holds exactly when h  *)
(* was computed by hashpw from p; the random salt, which checkpw reads     *)
(* back from h, and the created_at columns are not modelled.               *)
(***************************************************************************)
EXTENDS FiniteSets, Integers, Sequences, TLC

VARIABLES
    users,      \* rows of table users
    userSeq,    \* AUTOINCREMENT counter of users.id
    tokenSeq,   \* number of tokens secrets.token_hex has produced
    documents,  \* rows of table documents
    docSeq,     \* AUTOINCREMENT counter of documents.id
    session,    \* st.session_state.user of every browser session
    redeemed,   \* history: successful reset_password calls per token
    pc,         \* SpecConc: position of every caller inside reset_password
    frame,      \* SpecConc: locals of every caller's reset_password
    ret         \* the last call (or button pressed) and what it returned

vars == <<users, userSeq, tokenSeq, documents, docSeq, session,
          redeemed, pc, frame, ret>>

dbVars == <<users, userSeq, tokenSeq, documents, docSeq>>
uiVars == <<session>>
concVars == <<pc, frame>>

----------------------------------------------------------------------------
(* Bounds *)

MaxUsers == 2
MaxTokens == 2
MaxDocs == 2
NumSessions == 2
NumProcs == 2

----------------------------------------------------------------------------
(* Input domains *)

None == {}

\* the value inside a non-None Optional
The(opt) == CHOOSE x \in opt : TRUE

Emails ==
    { <<>>, <<" ">>, <<"a">>, <<" ", "A", " ">>, <<"b">> }

Passwords == { "", "pw1", "pw2" }

\* what the sessions of SpecUI and SpecLib type into the page's text inputs
TypedEmails == { <<"a">>, <<" ", "A", " ">>, <<"b">> }
TypedPasswords == { "pw1", "pw2" }

TokenHex(n) == "t" \o ToString(n)

\* token strings a caller may type: every token_hex result, and ""
TokenStrings == { TokenHex(n) : n \in 1..MaxTokens } \cup { "" }

\* values the token parameter of reset_password may take: a string or None
TokenArgs == { {t} : t \in TokenStrings } \cup { None }

Sessions == 1..NumSessions
Procs == 1..NumProcs

----------------------------------------------------------------------------
(* str.strip(), str.lower() *)

RECURSIVE lstrip(_)
lstrip(s) ==
    IF s # <<>> /\ Head(s) = " " THEN lstrip(Tail(s)) ELSE s

RECURSIVE rstrip(_)
rstrip(s) ==
    IF s # <<>> /\ s[Len(s)] = " " THEN rstrip(SubSeq(s, 1, Len(s) - 1)) ELSE s

strip(s) == rstrip(lstrip(s))

lowerChar(c) ==
    CASE c = "A" -> "a"
      [] c = "B" -> "b"
      [] OTHER -> c

lower(s) == [i \in 1..Len(s) |-> lowerChar(s[i])]

\* email.strip().lower()
Normalize(email) == lower(strip(email))

----------------------------------------------------------------------------
(* bcrypt *)

hashpw(password) == [bcrypt |-> password]

checkpw(password, hash) == hash = hashpw(password)

----------------------------------------------------------------------------
(* Initial state: init_db() has created two empty tables *)

NoCall == [op |-> "none"]

\* the value of ret after function (or button) op has returned val
Returned(op, val) == [op |-> op, val |-> val]

Init ==
    /\ users = {}
    /\ userSeq = 0
    /\ tokenSeq = 0
    /\ documents = {}
    /\ docSeq = 0
    /\ session = [s \in Sessions |-> None]
    /\ redeemed = [t \in {} |-> 0]
    /\ pc = [p \in Procs |-> "idle"]
    /\ frame = [p \in Procs |-> NoCall]
    /\ ret = Returned("init_db", None)

----------------------------------------------------------------------------
(* Core functions.  Each XxxDb(...) states the effect on the database and  *)
(* each XxxRet(...) the value returned, both from the state before.        *)

UserRowIn(rows, email) ==
    LET key == Normalize(email) IN { u \in rows : u.email = key }

UserRow(email) == UserRowIn(users, email)

\* add_user: the INSERT succeeds unless the UNIQUE(email) constraint fails
AddUserRejected(email, password) == email = <<>> \/ password = ""

\* add_user on a table without the UNIQUE constraint on email
AddUserRet_NoUnique(email, password) ==
    IF AddUserRejected(email, password)
    THEN <<FALSE, "Email and password are required.">>
    ELSE <<TRUE, "Registration successful.">>

AddUserRet(email, password) ==
    IF AddUserRejected(email, password)
    THEN <<FALSE, "Email and password are required.">>
    ELSE IF UserRow(email) # {}
         THEN <<FALSE, "Email already registered.">>
         ELSE <<TRUE, "Registration successful.">>

AddUserDb(email, password) ==
    IF AddUserRet(email, password)[1]
    THEN /\ userSeq < MaxUsers
         /\ users' = users \cup
              { [ id            |-> userSeq + 1,
                  email         |-> Normalize(email),
                  password_hash |-> hashpw(password),
                  reset_token   |-> None ] }
         /\ userSeq' = userSeq + 1
    ELSE UNCHANGED <<users, userSeq>>

\* verify_user without .strip().lower() on the email it looks up
verify_user_NoNormalize(email, password) ==
    { [id |-> u.id, email |-> u.email] :
        u \in { r \in users :
                  r.email = email /\ checkpw(password, r.password_hash) } }

\* verify_user without the bcrypt.checkpw test
verify_user_NoPassword(email, password) ==
    { [id |-> u.id, email |-> u.email] : u \in UserRow(email) }

\* verify_user: None, or the dict {"id", "email"} of the matching row
verify_user(email, password) ==
    { [id |-> u.id, email |-> u.email] :
        u \in { r \in UserRow(email) : checkpw(password, r.password_hash) } }

\* create_reset_token: cur.rowcount = 0 when no row has this email
CreateResetTokenRet(email) ==
    IF UserRow(email) = {} THEN None ELSE { TokenHex(tokenSeq + 1) }

\* create_reset_token whose UPDATE has no WHERE clause
CreateResetTokenDb_AllRows(email) ==
    /\ tokenSeq < MaxTokens
    /\ tokenSeq' = tokenSeq + 1
    /\ users' = { [u EXCEPT !.reset_token = { TokenHex(tokenSeq + 1) }] :
                    u \in users }

CreateResetTokenDb(email) ==
    /\ tokenSeq < MaxTokens
    /\ tokenSeq' = tokenSeq + 1
    /\ users' = LET key == Normalize(email)
                     token == TokenHex(tokenSeq + 1)
                 IN  { IF u.email = key
                       THEN [u EXCEPT !.reset_token = {token}]
                       ELSE u : u \in users }

\* reset_password, first statement: SELECT reset_token ... ; the comparison
\* row["reset_token"] != token
TokenAcceptedIn(rows, email, token) ==
    \E u \in UserRowIn(rows, email) : u.reset_token = token

TokenAccepted(email, token) == TokenAcceptedIn(users, email, token)

\* reset_password whose UPDATE does not set reset_token=NULL
ResetUpdate_KeepsToken(email, new_password) ==
    LET key == Normalize(email)
        pw_hash == hashpw(new_password)
    IN  { IF u.email = key
          THEN [u EXCEPT !.password_hash = pw_hash]
          ELSE u : u \in users }

\* reset_password, second statement: UPDATE ... SET password_hash=?,
\* reset_token=NULL WHERE email=?
ResetUpdate(email, new_password) ==
    LET key == Normalize(email)
        pw_hash == hashpw(new_password)
    IN  { IF u.email = key
          THEN [u EXCEPT !.password_hash = pw_hash, !.reset_token = None]
          ELSE u : u \in users }

ResetPasswordRetIn(rows, email, token) ==
    IF TokenAcceptedIn(rows, email, token)
    THEN <<TRUE, "Password has been reset successfully.">>
    ELSE <<FALSE, "Invalid or expired reset token.">>

ResetPasswordRet(email, token) == ResetPasswordRetIn(users, email, token)

\* history of successful redemptions, keyed by the token string redeemed
Count(t) == IF t \in DOMAIN redeemed THEN redeemed[t] ELSE 0

Redeemed(token) ==
    IF token = None THEN redeemed
    ELSE LET t == CHOOSE x \in token : TRUE
         IN  [x \in DOMAIN redeemed \cup {t} |->
                IF x = t THEN Count(t) + 1 ELSE redeemed[x]]

----------------------------------------------------------------------------
(* Spec: the core functions, called one after another *)

add_user(email, password) ==
    /\ ret' = Returned("add_user", AddUserRet(email, password))
    /\ AddUserDb(email, password)
    /\ UNCHANGED <<tokenSeq, documents, docSeq, redeemed>>
    /\ UNCHANGED <<uiVars, concVars>>

create_reset_token(email) ==
    /\ ret' = Returned("create_reset_token", CreateResetTokenRet(email))
    /\ CreateResetTokenDb(email)
    /\ UNCHANGED <<userSeq, documents, docSeq, redeemed>>
    /\ UNCHANGED <<uiVars, concVars>>

reset_password(email, token, new_password) ==
    /\ ret' = Returned("reset_password", ResetPasswordRet(email, token))
    /\ IF TokenAccepted(email, token)
       THEN /\ users' = ResetUpdate(email, new_password)
            /\ redeemed' = Redeemed(token)
       ELSE UNCHANGED <<users, redeemed>>
    /\ UNCHANGED <<userSeq, tokenSeq, documents, docSeq>>
    /\ UNCHANGED <<uiVars, concVars>>

Next ==
    \/ \E e \in Emails, p \in Passwords : add_user(e, p)
    \/ \E e \in Emails : create_reset_token(e)
    \/ \E e \in Emails, t \in TokenArgs, p \in Passwords :
           reset_password(e, t, p)

Spec == Init /\ [][Next]_vars

----------------------------------------------------------------------------------------------------------------------------------------
(* Results of the calls, as the claims name them *)

InvalidInput == <<FALSE, "Email and password are required.">>
DuplicateEmail == <<FALSE, "Email already registered.">>
Registered == <<TRUE, "Registration successful.">>
InvalidToken == <<FALSE, "Invalid or expired reset token.">>
ResetDone == <<TRUE, "Password has been reset successfully.">>

\* the dict verify_user returns for a row
UserDict(u) == [id |-> u.id, email |-> u.email]

\* the inputs that normalize to the stored email n
NormalForm == [e \in Emails |-> Normalize(e)]
Spellings(n) == { e \in Emails : NormalForm[e] = n }

----------------------------------------------------------------------------
(* C1 - for a user with pending token T, redeeming T with a new password   *)
(* succeeds; after it verify accepts the new password and rejects the old  *)
(* one, T is no longer accepted, and over the whole run no token is        *)
(* redeemed successfully more than once.                                   *)

C1_Pending ==
    \A u \in users :
        u.reset_token # None =>
            \A e \in Spellings(u.email) :
                ResetPasswordRet(e, u.reset_token) = ResetDone

C1_Step(u, e, npw) ==
    reset_password(e, u.reset_token, npw) =>
        /\ verify_user(e, npw)' = { UserDict(u) }
        /\ \A opw \in Passwords :
               (opw # npw /\ checkpw(opw, u.password_hash))
                   => verify_user(e, opw)' = None
        /\ \A v \in UserRow(e)' : v.reset_token = None
        /\ ResetPasswordRetIn(users', e, u.reset_token) = InvalidToken
        /\ redeemed'[The(u.reset_token)] = 1

C1_RedeemOnce ==
    /\ [](C1_Pending /\ \A t \in DOMAIN redeemed : redeemed[t] <= 1)
    /\ [][ (ret'.op = "reset_password" /\ ret'.val = ResetDone) =>
             \A u \in users :
                 u.reset_token # None =>
                     \A e \in Spellings(u.email), npw \in Passwords :
                         C1_Step(u, e, npw) ]_vars

C1_Witness ==
    /\ ret = Returned("reset_password", ResetDone)
    /\ \E t \in DOMAIN redeemed : redeemed[t] = 1
    /\ \E u \in users :
           /\ u.reset_token = None
           /\ verify_user(u.email, "pw2") = { UserDict(u) }
           /\ verify_user(u.email, "pw1") = None

----------------------------------------------------------------------------
(* C4 - at most one user per normalized email; a registration whose        *)
(* normalized email is already stored fails with DuplicateEmail and leaves *)
(* the users unchanged.                                                    *)

UniqueEmails ==
    \A u \in users : \A v \in users :
        Normalize(u.email) = Normalize(v.email) => u = v

\* the claim as written: every registration of a stored email is a
\* DuplicateEmail, whatever the password
C4_Original ==
    /\ []UniqueEmails
    /\ [][ ret'.op = "add_user" =>
             \A e \in Emails, p \in Passwords :
                 (add_user(e, p) /\ UserRow(e) # {})
                     => ret'.val = DuplicateEmail /\ users' = users ]_vars

\* C4 as amended: a registration with a non-empty email and a non-empty
\* password whose normalized email is already stored fails with
\* DuplicateEmail; one with an empty email or password fails with
\* InvalidInput; both leave the users unchanged; a registration of a new
\* normalized email adds exactly one user.
C4_Step(e, p) ==
    add_user(e, p) =>
        /\ (e # <<>> /\ p # "" /\ UserRow(e) # {})
               => ret'.val = DuplicateEmail /\ users' = users
        /\ (e = <<>> \/ p = "")
               => ret'.val = InvalidInput /\ users' = users
        /\ (e # <<>> /\ p # "" /\ UserRow(e) = {})
               => /\ ret'.val = Registered
                  /\ Cardinality(users') = Cardinality(users) + 1
                  /\ users \subseteq users'

C4_UniqueEmail ==
    /\ []UniqueEmails
    /\ [][ ret'.op = "add_user" =>
             \A e \in Emails, p \in Passwords : C4_Step(e, p) ]_vars

C4_Witness ==
    /\ ret = Returned("add_user", DuplicateEmail)
    /\ Cardinality(users) = 2

----------------------------------------------------------------------------
(* C6 - register fails with InvalidInput and creates no user whenever the  *)
(* password or the normalized email is empty, so no stored user has an     *)
(* empty email.                                                            *)

C6_EmptyRejected ==
    /\ [](\A u \in users : u.email # <<>>)
    /\ [][ ret'.op = "add_user" =>
             \A e \in Emails, p \in Passwords :
                 (add_user(e, p) /\ (Normalize(e) = <<>> \/ p = ""))
                     => ret'.val = InvalidInput /\ users' = users ]_vars

----------------------------------------------------------------------------
(* C7 - issue returns none and changes nothing for an unregistered email;  *)
(* for a registered one it returns a token that becomes the only token     *)
(* reset_password accepts for that user (an earlier token is refused), and *)
(* it changes no password hash and no other user's token.                  *)

C7_Step(e) ==
    create_reset_token(e) =>
        /\ UserRow(e) = {} => ret'.val = None /\ users' = users
        /\ \A u \in UserRow(e) :
               /\ Cardinality(ret'.val) = 1
               /\ ResetPasswordRetIn(users', e, ret'.val) = ResetDone
               /\ \A t \in TokenArgs :
                      t # ret'.val
                          => ResetPasswordRetIn(users', e, t) = InvalidToken
               /\ u.reset_token # ret'.val
               /\ \E v \in users' : v = [u EXCEPT !.reset_token = ret'.val]
        /\ \A u \in users :
               Normalize(e) # u.email => u \in users'
        /\ Cardinality(users') = Cardinality(users)

C7_IssueOverwrites ==
    [][ ret'.op = "create_reset_token" =>
          \A e \in Emails : C7_Step(e) ]_vars

C7_Witness ==
    /\ ret = Returned("create_reset_token", { TokenHex(2) })
    /\ Cardinality(users) = 2
    /\ \E u \in users : u.reset_token = ret.val
    /\ \E u \in users : u.reset_token = { TokenHex(1) }

----------------------------------------------------------------------------
(* C8 - redeem fails with InvalidToken for every supplied token, the empty *)
(* string and None included, when the email is unregistered, the user has  *)
(* no pending token, or the supplied token differs from the stored one; a  *)
(* failed redeem changes no user.                                          *)

C8_Refused(e, t) ==
    \/ UserRow(e) = {}
    \/ \E u \in UserRow(e) : u.reset_token = None \/ u.reset_token # t

C8_InvalidToken ==
    [][ ret'.op = "reset_password" =>
          \A e \in Emails, t \in TokenArgs, p \in Passwords :
              (reset_password(e, t, p) /\ C8_Refused(e, t))
                  => ret'.val = InvalidToken /\ users' = users ]_vars

----------------------------------------------------------------------------
(* Document repository *)

\* what the page's text area and file uploader can hold
PasteTexts == { <<" ">>, <<"x", " ">> }

NoUpload == {}
Uploads ==
    { NoUpload,
      { [name |-> "n.txt", type |-> "text/plain", text |-> <<"y">>] } }

\* save_document: INSERT INTO documents
SaveDocumentDb(user_id, content, filename, mime) ==
    /\ docSeq < MaxDocs
    /\ documents' = documents \cup
         { [ id       |-> docSeq + 1,
             user_id  |-> user_id,
             filename |-> filename,
             mime     |-> mime,
             content  |-> content ] }
    /\ docSeq' = docSeq + 1

\* the columns list_documents selects
DocRow(d) ==
    [id |-> d.id, filename |-> d.filename, mime |-> d.mime,
     content |-> d.content]

\* ORDER BY id ASC
RECURSIVE OrderByIdAsc(_)
OrderByIdAsc(rows) ==
    IF rows = {} THEN <<>>
    ELSE LET low == CHOOSE d \in rows : \A e \in rows : d.id <= e.id
         IN  <<DocRow(low)>> \o OrderByIdAsc(rows \ {low})

\* ORDER BY id DESC
RECURSIVE OrderByIdDesc(_)
OrderByIdDesc(rows) ==
    IF rows = {} THEN <<>>
    ELSE LET top == CHOOSE d \in rows : \A e \in rows : e.id <= d.id
         IN  <<DocRow(top)>> \o OrderByIdDesc(rows \ {top})

\* list_documents without WHERE user_id=?
ListDocumentsIn_AllOwners(docs, user_id) == OrderByIdDesc(docs)

\* list_documents: SELECT ... WHERE user_id=? ORDER BY id DESC
ListDocumentsIn(docs, user_id) ==
    OrderByIdDesc({ d \in docs : d.user_id = user_id })

list_documents(user_id) == ListDocumentsIn(documents, user_id)

\* delete_document without AND user_id=?
DeleteDocumentDb_AnyOwner(doc_id, user_id) ==
    { d \in documents : d.id # doc_id }

\* delete_document: DELETE FROM documents WHERE id=? AND user_id=?
DeleteDocumentDb(doc_id, user_id) ==
    { d \in documents : ~ (d.id = doc_id /\ d.user_id = user_id) }

----------------------------------------------------------------------------
(* SpecUI: the Streamlit script.  Every interaction of a browser session   *)
(* runs the whole script: the Login tab, the Upload tab, then the          *)
(* Documents tab, which lists the documents of st.session_state.user.      *)

\* the rows the Documents tab renders for a session holding user
DocumentsTab(user) ==
    IF user = None THEN <<>> ELSE list_documents(The(user).id)

\* "Sign In"
SignIn(s, email, password) ==
    /\ session[s] = None
    /\ LET user == verify_user(email, password) IN
         IF user # None
         THEN /\ session' = [session EXCEPT ![s] = user]
              /\ ret' = Returned("Sign In", "Login successful.")
         ELSE /\ session' = session
              /\ ret' = Returned("Sign In", "Invalid email or password.")
    /\ UNCHANGED <<dbVars, redeemed, concVars>>

\* "Sign out", then st.rerun()
SignOut(s) ==
    /\ session[s] # None
    /\ session' = [session EXCEPT ![s] = None]
    /\ ret' = Returned("Sign out", "")
    /\ UNCHANGED <<dbVars, redeemed, concVars>>

\* "Create Account"
CreateAccount(s, r_email, r_pwd) ==
    /\ session[s] = None
    /\ ret' = Returned("Create Account", AddUserRet(r_email, r_pwd)[2])
    /\ AddUserDb(r_email, r_pwd)
    /\ UNCHANGED <<tokenSeq, documents, docSeq, redeemed>>
    /\ UNCHANGED <<uiVars, concVars>>

\* "Send Reset Token"
SendResetToken(s, fp_email) ==
    /\ session[s] = None
    /\ LET token == CreateResetTokenRet(fp_email) IN
         ret' = Returned("Send Reset Token",
                         IF token # None THEN The(token)
                         ELSE "Email not found.")
    /\ CreateResetTokenDb(fp_email)
    /\ UNCHANGED <<userSeq, documents, docSeq, redeemed>>
    /\ UNCHANGED <<uiVars, concVars>>

\* "Reset Password": fp_token is the string in the text input
ResetPassword(s, fp_email, fp_token, fp_newpwd) ==
    /\ session[s] = None
    /\ ret' = Returned("Reset Password",
                       ResetPasswordRet(fp_email, {fp_token})[2])
    /\ IF TokenAccepted(fp_email, {fp_token})
       THEN /\ users' = ResetUpdate(fp_email, fp_newpwd)
            /\ redeemed' = Redeemed({fp_token})
       ELSE UNCHANGED <<users, redeemed>>
    /\ UNCHANGED <<userSeq, tokenSeq, documents, docSeq>>
    /\ UNCHANGED <<uiVars, concVars>>

\* "Save Document"
FinalText(paste_text, uploaded_file) ==
    LET extracted_text ==
            IF uploaded_file = NoUpload THEN <<>> ELSE The(uploaded_file).text
        final_text == strip(paste_text)
    IN  IF final_text = <<>> /\ extracted_text # <<>>
        THEN strip(extracted_text)
        ELSE final_text

SaveDocument(s, paste_text, uploaded_file) ==
    /\ session[s] # None
    /\ LET final_text == FinalText(paste_text, uploaded_file)
           filename == IF uploaded_file = NoUpload THEN "pasted_text.txt"
                       ELSE The(uploaded_file).name
           mime == IF uploaded_file = NoUpload THEN "text/plain"
                   ELSE The(uploaded_file).type
       IN  IF final_text = <<>>
           THEN /\ UNCHANGED <<documents, docSeq>>
                /\ ret' = Returned("Save Document",
                     "No content to save. Paste text or upload a file first.")
           ELSE /\ SaveDocumentDb(The(session[s]).id, final_text, filename,
                                  mime)
                /\ ret' = Returned("Save Document",
                                   "Document saved to your library.")
    /\ UNCHANGED <<users, userSeq, tokenSeq, redeemed>>
    /\ UNCHANGED <<uiVars, concVars>>

\* "View" next to the i-th listed row
ViewDocument(s, i) ==
    /\ session[s] # None
    /\ LET docs == DocumentsTab(session[s]) IN
         /\ i \in 1..Len(docs)
         /\ ret' = Returned("View", docs[i])
    /\ UNCHANGED <<dbVars, redeemed, uiVars, concVars>>

\* "Delete" next to the i-th listed row, then st.rerun()
DeleteDocument(s, i) ==
    /\ session[s] # None
    /\ LET docs == DocumentsTab(session[s]) IN
         /\ i \in 1..Len(docs)
         /\ documents' = DeleteDocumentDb(docs[i].id, The(session[s]).id)
         /\ ret' = Returned("Delete", docs[i].id)
    /\ UNCHANGED <<users, userSeq, tokenSeq, docSeq, redeemed>>
    /\ UNCHANGED <<uiVars, concVars>>

NextUI ==
    \/ \E s \in Sessions, e \in TypedEmails, p \in TypedPasswords :
           SignIn(s, e, p)
    \/ \E s \in Sessions : SignOut(s)
    \/ \E s \in Sessions, e \in TypedEmails, p \in TypedPasswords :
           CreateAccount(s, e, p)
    \/ \E s \in Sessions, e \in TypedEmails : SendResetToken(s, e)
    \/ \E s \in Sessions, e \in TypedEmails, t \in TokenStrings,
          p \in TypedPasswords :
           ResetPassword(s, e, t, p)

SpecUI == Init /\ [][NextUI]_vars

NextLib ==
    \/ \E s \in Sessions, e \in TypedEmails, p \in TypedPasswords :
           SignIn(s, e, p)
    \/ \E s \in Sessions : SignOut(s)
    \/ \E s \in Sessions, e \in TypedEmails, p \in TypedPasswords :
           CreateAccount(s, e, p)
    \/ \E s \in Sessions, t \in PasteTexts, f \in Uploads :
           SaveDocument(s, t, f)
    \/ \E s \in Sessions, i \in 1..MaxDocs : ViewDocument(s, i)
    \/ \E s \in Sessions, i \in 1..MaxDocs : DeleteDocument(s, i)

SpecLib == Init /\ [][NextLib]_vars

----------------------------------------------------------------------------
(* C5 - a successful registration can be verified with its password under  *)
(* every spelling of the email that normalizes to the stored one, and      *)
(* verify returns the id the row was inserted with; no later step changes  *)
(* the id or the email of a stored user.                                   *)

UniqueIds == \A u \in users : \A v \in users : u.id = v.id => u = v

\* every row of users before the step is still there with its id and email
SameIdentities ==
    \A u \in users : \E v \in users' : v.id = u.id /\ v.email = u.email

C5_Step(s, e, p) ==
    CreateAccount(s, e, p) =>
        \E u \in users' \ users :
            \A e2 \in Emails :
                Normalize(e2) = Normalize(e)
                    => verify_user(e2, p)' = { UserDict(u) }

C5_RegisterThenVerify ==
    /\ []UniqueIds
    /\ [][ /\ (ret'.op = "Create Account" /\ ret'.val = Registered[2]) =>
                \A s \in Sessions, e \in TypedEmails, p \in TypedPasswords :
                    C5_Step(s, e, p)
           /\ users' # users => SameIdentities ]_vars

C5_Witness ==
    /\ ret = Returned("Create Account", Registered[2])
    /\ \E u \in users :
           /\ u.id = 2
           /\ u.email = <<"a">>
           /\ verify_user(<<" ", "A", " ">>, "pw1") = { UserDict(u) }

----------------------------------------------------------------------------
(* C9 - verify returns the user's id exactly when the normalized email is  *)
(* registered and the password matches the stored hash, and none in every  *)
(* other case; a failed Sign In shows "Invalid email or password." and     *)
(* leaves the session unauthenticated whichever of the two reasons made it *)
(* fail; Sign In changes neither users nor documents.                      *)

C9_Matching(e, p) ==
    { u \in users : u.email = Normalize(e) /\ u.password_hash = hashpw(p) }

C9_Verify ==
    \A e \in Emails, p \in Passwords :
        verify_user(e, p) = { UserDict(u) : u \in C9_Matching(e, p) }

C9_Step(s, e, p) ==
    SignIn(s, e, p) =>
        /\ users' = users /\ documents' = documents
        /\ C9_Matching(e, p) = {} =>
               /\ ret'.val = "Invalid email or password."
               /\ session'[s] = None
        /\ \A u \in C9_Matching(e, p) :
               /\ ret'.val = "Login successful."
               /\ session'[s] = { UserDict(u) }

C9_LoginOutcome ==
    /\ []C9_Verify
    /\ [][ ret'.op = "Sign In" =>
             \A s \in Sessions, e \in TypedEmails, p \in TypedPasswords :
                 C9_Step(s, e, p) ]_vars

C9_Witness ==
    /\ ret = Returned("Sign In", "Invalid email or password.")
    /\ \A s \in Sessions : session[s] = None
    /\ \E u \in users : u.email = <<"a">> /\ u.password_hash = hashpw("pw2")
    /\ UserRow(<<"b">>) = {}
    /\ \E t \in DOMAIN redeemed : redeemed[t] = 1

----------------------------------------------------------------------------
(* C10 - a session is authenticated only by a successful verify and then   *)
(* holds that user's id; it saves documents only under that id, and the    *)
(* rows it lists, views or deletes are documents of that id; an            *)
(* unauthenticated session lists nothing.                                  *)

Owned(row, user) ==
    \E d \in documents :
        d.id = row.id /\ d.content = row.content /\ d.user_id = The(user).id

C10_State ==
    \A s \in Sessions :
        /\ session[s] # None => \E u \in users : session[s] = { UserDict(u) }
        /\ session[s] = None => DocumentsTab(session[s]) = <<>>
        /\ LET docs == DocumentsTab(session[s]) IN
               \A i \in 1..Len(docs) : Owned(docs[i], session[s])

C10_Login(s) ==
    session'[s] # session[s] =>
        \/ session'[s] = None
        \/ /\ session[s] = None
           /\ \E e \in TypedEmails, p \in TypedPasswords :
                  verify_user(e, p) # None /\ session'[s] = verify_user(e, p)

C10_Save ==
    /\ \A d \in documents' \ documents :
           \E s \in Sessions, t \in PasteTexts, f \in Uploads :
               SaveDocument(s, t, f)
    /\ \A s \in Sessions, t \in PasteTexts, f \in Uploads :
           SaveDocument(s, t, f) =>
               \A d \in documents' \ documents :
                   d.user_id = The(session[s]).id

C10_Delete ==
    /\ \A d \in documents \ documents' :
           \E s \in Sessions, i \in 1..MaxDocs : DeleteDocument(s, i)
    /\ \A s \in Sessions, i \in 1..MaxDocs :
           DeleteDocument(s, i) =>
               \A d \in documents \ documents' :
                   d.user_id = The(session[s]).id

C10_View ==
    \A s \in Sessions, i \in 1..MaxDocs :
        ViewDocument(s, i) => Owned(ret'.val, session[s])

C10_OwnerScoped ==
    /\ []C10_State
    /\ [][ /\ session' # session => \A s \in Sessions : C10_Login(s)
           /\ documents' # documents => C10_Save /\ C10_Delete
           /\ ret'.op = "View" => C10_View ]_vars

C10_Witness ==
    /\ session[1] # None /\ session[2] # None
    /\ session[1] # session[2]
    /\ Len(DocumentsTab(session[1])) = 1
    /\ Len(DocumentsTab(session[2])) = 1

----------------------------------------------------------------------------
(* SpecConc: several callers on the one database.  add_user and            *)
(* create_reset_token execute a single SQL statement and are atomic;       *)
(* reset_password executes a SELECT, compares in Python, then executes an  *)
(* UPDATE, and other callers' statements may run between the two.  The     *)
(* callers supply token strings, as the page does.                         *)

\* reset_password up to the comparison: SELECT reset_token, then either
\* return the refusal or go on to the UPDATE
ResetSelect(p, email, token, new_password) ==
    /\ pc[p] = "idle"
    /\ IF TokenAccepted(email, token)
       THEN /\ pc' = [pc EXCEPT ![p] = "update"]
            /\ frame' = [frame EXCEPT ![p] =
                           [email |-> email, token |-> token,
                            new_password |-> new_password]]
            /\ ret' = ret
       ELSE /\ ret' = Returned("reset_password", ResetPasswordRet(email, token))
            /\ UNCHANGED <<pc, frame>>
    /\ UNCHANGED <<dbVars, redeemed, uiVars>>

\* reset_password from the UPDATE to the return
ResetWrite(p) ==
    /\ pc[p] = "update"
    /\ users' = ResetUpdate(frame[p].email, frame[p].new_password)
    /\ redeemed' = Redeemed(frame[p].token)
    /\ pc' = [pc EXCEPT ![p] = "idle"]
    /\ frame' = [frame EXCEPT ![p] = NoCall]
    /\ ret' = Returned("reset_password",
                       <<TRUE, "Password has been reset successfully.">>)
    /\ UNCHANGED <<userSeq, tokenSeq, documents, docSeq, uiVars>>

NextConc ==
    \/ \E e \in TypedEmails, p \in TypedPasswords : add_user(e, p)
    \/ \E e \in TypedEmails : create_reset_token(e)
    \/ \E p \in Procs, e \in TypedEmails, t \in TokenStrings,
          n \in TypedPasswords :
           ResetSelect(p, e, {t}, n)
    \/ \E p \in Procs : ResetWrite(p)

SpecConc == Init /\ [][NextConc]_vars

----------------------------------------------------------------------------
(* C2 - of two concurrent redemptions of the same valid token at most one  *)
(* returns success: no token is ever redeemed successfully twice.          *)

C2_AtMostOneSuccess ==
    \A t \in TokenStrings : Count(t) < 2

----------------------------------------------------------------------------
(* C3 - a redeem racing a newer issue never erases the token the issue     *)
(* stored: when a redeem executes its UPDATE while the user's pending      *)
(* token is not the one this redeem verified, that token is still pending  *)
(* after the UPDATE.                                                       *)

C3_Step(p) ==
    ResetWrite(p) =>
        \A u \in UserRow(frame[p].email) :
            (u.reset_token # None /\ u.reset_token # frame[p].token)
                => \E v \in users' : v.id = u.id /\ v.reset_token = u.reset_token

C3_IssueSurvivesRedeem ==
    [][ \A p \in Procs : C3_Step(p) ]_vars

----------------------------------------------------------------------------
(* SpecDoc: the document functions called directly.  The connection never  *)
(* enables foreign keys, so user_id is any integer, and content TEXT NOT   *)
(* NULL admits the empty string.  Each function executes one statement.    *)

Contents == { <<>>, <<"x">> }
Filenames == { "n.txt" }
Mimes == { "text/plain" }
UserIds == 1..MaxUsers
DocIds == 1..MaxDocs

save_document(user_id, content, filename, mime) ==
    /\ ret' = Returned("save_document", None)
    /\ SaveDocumentDb(user_id, content, filename, mime)
    /\ UNCHANGED <<users, userSeq, tokenSeq, redeemed>>
    /\ UNCHANGED <<uiVars, concVars>>

delete_document(doc_id, user_id) ==
    /\ ret' = Returned("delete_document", None)
    /\ documents' = DeleteDocumentDb(doc_id, user_id)
    /\ UNCHANGED <<users, userSeq, tokenSeq, docSeq, redeemed>>
    /\ UNCHANGED <<uiVars, concVars>>

NextDoc ==
    \/ \E e \in TypedEmails, p \in TypedPasswords : add_user(e, p)
    \/ \E u \in UserIds, c \in Contents, f \in Filenames, m \in Mimes :
           save_document(u, c, f, m)
    \/ \E i \in DocIds, u \in UserIds : delete_document(i, u)

SpecDoc == Init /\ [][NextDoc]_vars

----------------------------------------------------------------------------
(* C11 - list_documents(owner) holds exactly the stored documents of that  *)
(* owner, newest first: it starts empty, a save puts the new document,     *)
(* with the content given, in front of the owner's list and leaves the     *)
(* other owners' lists alone, and a delete takes at most the named         *)
(* document out of the owner's list and keeps the order of the rest.       *)

\* the sequence seq without its rows of identifier doc_id
Without(seq, doc_id) ==
    LET Keep(r) == r.id # doc_id IN SelectSeq(seq, Keep)

C11_State ==
    \A o \in UserIds :
        LET rows == list_documents(o) IN
          /\ Len(rows) = Cardinality({ d \in documents : d.user_id = o })
          /\ \A d \in documents :
                 d.user_id = o <=> \E i \in 1..Len(rows) : rows[i] = DocRow(d)
          /\ \A i \in 1..Len(rows), j \in 1..Len(rows) :
                 i < j => rows[i].id > rows[j].id

C11_Save(u, c, f, m) ==
    save_document(u, c, f, m) =>
        /\ Len(list_documents(u)') = Len(list_documents(u)) + 1
        /\ list_documents(u)'[1].content = c
        /\ list_documents(u)'[1].filename = f
        /\ \A d \in documents : list_documents(u)'[1].id > d.id
        /\ Tail(list_documents(u)') = list_documents(u)
        /\ \A o \in UserIds \ {u} : list_documents(o)' = list_documents(o)

C11_Delete(i, u) ==
    delete_document(i, u) =>
        /\ list_documents(u)' = Without(list_documents(u), i)
        /\ \A o \in UserIds \ {u} : list_documents(o)' = list_documents(o)

C11_ListNewestFirst ==
    /\ []C11_State
    /\ [][ /\ ret'.op = "save_document" =>
                \A u \in UserIds, c \in Contents, f \in Filenames,
                   m \in Mimes : C11_Save(u, c, f, m)
           /\ ret'.op = "delete_document" =>
                \A i \in DocIds, u \in UserIds : C11_Delete(i, u) ]_vars

\* document 1 was saved and deleted, then document 2 saved: the owner's
\* list holds document 2 only, the other owner's list is empty
C11_Witness ==
    /\ ret.op = "save_document"
    /\ docSeq = 2
    /\ Len(list_documents(1)) = 1
    /\ list_documents(1)[1].id = 2
    /\ list_documents(1)[1].content = <<"x">>
    /\ list_documents(2) = <<>>

----------------------------------------------------------------------------
(* C12 - delete_document(doc_id, user_id) removes the document with that   *)
(* identifier when it exists and user_id owns it, and list_documents of    *)
(* the owner no longer holds it; otherwise it changes no document.  Either *)
(* way every other document stays as it was and the users are unchanged.   *)

UniqueDocIds ==
    \A d \in documents : \A e \in documents : d.id = e.id => d = e

C12_Step(i, u) ==
    delete_document(i, u) =>
        /\ \A d \in documents :
               (d.id = i /\ d.user_id = u)
                   => /\ documents' = documents \ {d}
                      /\ \A k \in 1..Len(list_documents(u)') :
                             list_documents(u)'[k].id # i
        /\ (~ \E d \in documents : d.id = i /\ d.user_id = u)
               => documents' = documents
        /\ \A d \in documents : d.id # i => d \in documents'
        /\ documents' \subseteq documents
        /\ users' = users

C12_DeleteOwnedOnly ==
    /\ []UniqueDocIds
    /\ [][ ret'.op = "delete_document" =>
             \A i \in DocIds, u \in UserIds : C12_Step(i, u) ]_vars

\* two users, two documents saved, document 2 deleted, document 1 of the
\* other owner still stored
C12_Witness ==
    /\ ret.op = "delete_document"
    /\ Cardinality(users) = 2
    /\ docSeq = 2
    /\ Cardinality(documents) = 1
    /\ \E d \in documents : d.id = 1 /\ d.user_id = 1 /\ d.content = <<"x">>

----------------------------------------------------------------------------
(* C13 - save_document refuses an empty content and stores nothing for     *)
(* it, so no stored document has an empty content; for a non-empty content *)
(* it stores exactly one new document of the given owner.                  *)

C13_Step(u, c, f, m) ==
    save_document(u, c, f, m) =>
        /\ c = <<>> => documents' = documents
        /\ c # <<>> =>
               /\ documents \subseteq documents'
               /\ Cardinality(documents' \ documents) = 1
               /\ \A d \in documents' \ documents :
                      d.user_id = u /\ d.content = c

C13_EmptyContentRejected ==
    /\ [](\A d \in documents : d.content # <<>>)
    /\ [][ ret'.op = "save_document" =>
             \A u \in UserIds, c \in Contents, f \in Filenames,
                m \in Mimes : C13_Step(u, c, f, m) ]_vars

====
